---- MODULE Spec2Model ----
(***************************************************************************)
(* GA4 -> bronze layer pipeline: Pipeline.run_daily, Pipeline.backfill,    *)
(* Pipeline.test_connections, Pipeline.get_pipeline_status together with   *)
(* the S3Loader and BigQueryExtractor operations they call.                *)
(*                                                                         *)
(* A date string 'YYYY-MM-DD' is modelled by the sequence of its           *)
(* '-'-separated parts, <<y, m, d>>; a datetime by its proleptic Gregorian *)
(* ordinal.  An S3 key is the sequence of its '/'-separated segments.      *)
(***************************************************************************)
EXTENDS Integers, Sequences, FiniteSets, TLC

\* ------------------------------------------------------------------ bounds
WindowLen == 2      \* consecutive days starting at 2024-02-29
MaxRecords == 2     \* largest number of rows an extraction returns
MaxTables == 2      \* longest table listing the warehouse returns

\* --------------------------------------------------------------- calendar
MAXYEAR == 9999

IsLeap(y) == (y % 4 = 0) /\ ((y % 100 # 0) \/ (y % 400 = 0))

DaysInMonth(y, m) ==
    IF m = 2 THEN (IF IsLeap(y) THEN 29 ELSE 28)
    ELSE IF m \in {4, 6, 9, 11} THEN 30 ELSE 31

DaysBeforeYear(y) ==
    (y - 1) * 365 + ((y - 1) \div 4) - ((y - 1) \div 100) + ((y - 1) \div 400)

RECURSIVE DaysBeforeMonth(_, _)
DaysBeforeMonth(y, m) ==
    IF m = 1 THEN 0 ELSE DaysBeforeMonth(y, m - 1) + DaysInMonth(y, m - 1)

\* the date strings strptime(.., '%Y-%m-%d') accepts
ValidDate(s) ==
    /\ Len(s) = 3
    /\ s[1] \in 1..MAXYEAR
    /\ s[2] \in 1..12
    /\ s[3] \in 1..DaysInMonth(s[1], s[2])

\* datetime.strptime(s, '%Y-%m-%d') of a valid date string, as an ordinal
strptime(s) == DaysBeforeYear(s[1]) + DaysBeforeMonth(s[1], s[2]) + s[3]

MaxOrdinal == strptime(<<MAXYEAR, 12, 31>>)

\* month and day of the r-th day (from 0) of year y, month estimated as
\* (r + 50) >> 5 and corrected downwards
monthDay(y, r) ==
    LET est == (r + 50) \div 32
        m == IF DaysBeforeMonth(y, est) > r THEN est - 1 ELSE est
    IN  <<y, m, r - DaysBeforeMonth(y, m) + 1>>

\* datetime.strftime('%Y-%m-%d') of the datetime with ordinal n: the year by
\* the 400-, 100-, 4- and 1-year cycles, then the month and the day
strftime(n) ==
    LET n400 == (n - 1) \div 146097
        r400 == (n - 1) % 146097
        n100 == r400 \div 36524
        r100 == r400 % 36524
        n4 == r100 \div 1461
        r4 == r100 % 1461
        n1 == r4 \div 365
        y == n400 * 400 + n100 * 100 + n4 * 4 + n1 + 1
    IN  IF n1 = 4 \/ n100 = 4 THEN <<y - 1, 12, 31>>
        ELSE monthDay(y, r4 % 365)

\* ------------------------------------------------------------ input dates
WindowFirst == strptime(<<2024, 2, 29>>)

\* the days of the window, and the last day a datetime can hold
Ordinals == (WindowFirst..(WindowFirst + WindowLen - 1)) \cup {MaxOrdinal}

Dates == {strftime(n) : n \in Ordinals}

\* a string without '-' : split('-') yields a single part
BadDate == <<20240229>>

DateArgs == Dates \cup {BadDate}

\* ----------------------------------------------------------------- S3 keys
Lit(name) == [k |-> name, v |-> -1]      \* a plain path segment
KV(name, val) == [k |-> name, v |-> val] \* a segment 'name=val'

Prefix == <<Lit("bronze"), Lit("ga4")>>

SplitOk(date) == Len(date) = 3

\* upload_events with a key that has no month segment
uploadKey_noMonth(date, data_type) ==
    Prefix \o <<Lit(data_type), KV("year", date[1]),
                KV("day", date[3]), Lit("data.parquet")>>

\* f"{prefix}/{data_type}/year={year}/month={month}/day={day}/data.parquet"
uploadKey(date, data_type) ==
    Prefix \o <<Lit(data_type), KV("year", date[1]), KV("month", date[2]),
                KV("day", date[3]), Lit("data.parquet")>>

\* check_exists with the day left out of the key
checkKey_noDay(date, data_type) ==
    Prefix \o <<Lit(data_type), KV("year", date[1]), KV("month", date[2]),
                Lit("data.parquet")>>

\* check_exists with month and day exchanged in the key
checkKey_swapped(date, data_type) ==
    Prefix \o <<Lit(data_type), KV("year", date[1]), KV("month", date[3]),
                KV("day", date[2]), Lit("data.parquet")>>

checkKey(date, data_type) ==
    Prefix \o <<Lit(data_type), KV("year", date[1]), KV("month", date[2]),
                KV("day", date[3]), Lit("data.parquet")>>

\* s3_key.replace('/data.parquet', '/metadata.json')
metadataKey(s3_key) ==
    [i \in 1..Len(s3_key) |->
        IF i > 1 /\ s3_key[i] = Lit("data.parquet") THEN Lit("metadata.json")
        ELSE s3_key[i]]


\* ------------------------------------------------------------ Python values
None == <<>>
Some(x) == <<x>>

ErrUnpack == "not enough values to unpack (expected 3, got 1)"
ErrHead == "An error occurred (403) when calling the HeadObject operation"
ErrQuery == "query failed"
ErrPut == "put_object failed"
ErrList == "list_tables failed"
ErrFormat == "time data does not match format '%Y-%m-%d'"
ErrRange == "start_date must be before end_date"
ErrOverflow == "date value out of range"
NoDataFound == "No data found"

DateLess(a, b) ==
    \/ a[1] < b[1]
    \/ a[1] = b[1] /\ a[2] < b[2]
    \/ a[1] = b[1] /\ a[2] = b[2] /\ a[3] < b[3]

\* insert x into the descending sequence s
RECURSIVE InsertDesc(_, _)
InsertDesc(x, s) ==
    IF s = <<>> THEN <<x>>
    ELSE IF DateLess(Head(s), x) THEN <<x>> \o s
    ELSE <<Head(s)>> \o InsertDesc(x, Tail(s))

\* sorted(dates, reverse=True)
RECURSIVE sortedReverse(_)
sortedReverse(s) ==
    IF s = <<>> THEN <<>> ELSE InsertDesc(Head(s), sortedReverse(Tail(s)))

\* s[:limit]
Take(s, limit) == SubSeq(s, 1, IF Len(s) < limit THEN Len(s) ELSE limit)

Range(s) == {s[i] : i \in 1..Len(s)}

RECURSIVE SetToSeq(_)
SetToSeq(S) ==
    IF S = {} THEN <<>>
    ELSE LET x == CHOOSE y \in S : TRUE IN <<x>> \o SetToSeq(S \ {x})

Returned(v, objs) == [exc |-> None, val |-> v, objects |-> objs]
Raised(msg, objs) == [exc |-> Some(msg), val |-> None, objects |-> objs]

\* ---------------------------------------------------------------- variables
VARIABLES
    objects,        \* keys of the objects stored in the bucket
    bucket_exists,  \* whether the bucket exists
    pc,             \* position of the operation in progress
    op,             \* the operation in progress and its arguments
    result,         \* run_daily: the result dict
    df,             \* run_daily: len(df) of the extracted DataFrame
    results,        \* backfill: the results dict
    current_date,   \* backfill: the loop variable (ordinal)
    calls,          \* calls made by the operation in progress, in order
    status,         \* get_pipeline_status: the status dict
    ret,            \* outcome of the last completed operation
    prev,           \* the run_daily(d, skip_existing=True) call completed just
                    \* before, if any (while run_daily runs: only if for its date)
    exit_code,      \* exit code of the driver process that ended last
    workers,        \* concurrent invocations of run_daily: each one's position,
                    \* result dict and len(df)
    trace           \* the calls of the concurrent invocations, in global order

vars == <<objects, bucket_exists, pc, op, result, df,
          results, current_date, calls, status, ret, prev, exit_code,
          workers, trace>>

sinkVars == <<objects, bucket_exists>>

raceVars == <<workers, trace>>

\* the variables of the single driver process
driverVars == <<pc, op, result, df, results, current_date, calls, status, ret,
                prev, exit_code>>

\* ------------------------------------------------------------------ S3Loader
\* s3_client.head_object: fault is a transport or permission error
head_object(objs, key, fault) ==
    IF fault THEN "error" ELSE IF key \in objs THEN "200" ELSE "404"

\* s3_client.put_object: fails on a fault or when the bucket is missing
put_object(objs, bucket, key, fault) ==
    IF fault \/ ~bucket THEN Raised(ErrPut, objs)
    ELSE Returned(TRUE, objs \cup {key})

\* check_exists that answers False whenever head_object answers
check_exists_neverFound(objs, date, fault) ==
    IF ~SplitOk(date) THEN Raised(ErrUnpack, objs)
    ELSE LET code == head_object(objs, checkKey(date, "events"), fault)
         IN  IF code = "200" THEN Returned(FALSE, objs)
             ELSE IF code = "404" THEN Returned(FALSE, objs)
             ELSE Raised(ErrHead, objs)

\* check_exists that takes every failure of head_object for a missing object
check_exists_errorIsAbsent(objs, date, fault) ==
    IF ~SplitOk(date) THEN Raised(ErrUnpack, objs)
    ELSE LET code == head_object(objs, checkKey(date, "events"), fault)
         IN  IF code = "200" THEN Returned(TRUE, objs)
             ELSE Returned(FALSE, objs)

check_exists(objs, date, fault) ==
    IF ~SplitOk(date) THEN Raised(ErrUnpack, objs)
    ELSE LET code == head_object(objs, checkKey(date, "events"), fault)
         IN  IF code = "200" THEN Returned(TRUE, objs)
             ELSE IF code = "404" THEN Returned(FALSE, objs)
             ELSE Raised(ErrHead, objs)

\* _upload_metadata: a failed put is logged and swallowed
upload_metadata(objs, bucket, s3_key, fault) ==
    put_object(objs, bucket, metadataKey(s3_key), fault).objects

\* what _upload_metadata logs: "raised" when its put_object raised
metadataWrite(objs, bucket, s3_key, fault) ==
    IF put_object(objs, bucket, metadataKey(s3_key), fault).exc # None
    THEN "raised" ELSE "written"

\* upload_events whose failing data write leaves the object behind
upload_events_partialWrite(objs, bucket, n, date, dataFault, metaFault) ==
    IF n = 0 THEN Returned(None, objs)
    ELSE IF ~SplitOk(date) THEN Raised(ErrUnpack, objs)
    ELSE LET s3_key == uploadKey(date, "events")
             put == put_object(objs, bucket, s3_key, dataFault)
         IN  IF put.exc # None THEN Raised(ErrPut, objs \cup {s3_key})
             ELSE Returned(Some(s3_key),
                           upload_metadata(put.objects, bucket, s3_key, metaFault))

\* upload_events that lets a failed metadata write propagate
upload_events_metaFatal(objs, bucket, n, date, dataFault, metaFault) ==
    IF n = 0 THEN Returned(None, objs)
    ELSE IF ~SplitOk(date) THEN Raised(ErrUnpack, objs)
    ELSE LET s3_key == uploadKey(date, "events")
             put == put_object(objs, bucket, s3_key, dataFault)
         IN  IF put.exc # None THEN Raised(ErrPut, objs)
             ELSE IF metadataWrite(put.objects, bucket, s3_key, metaFault) = "raised"
             THEN Raised(ErrPut, put.objects)
             ELSE Returned(Some(s3_key),
                           upload_metadata(put.objects, bucket, s3_key, metaFault))

\* upload_events without its 'return s3_key'
upload_events_noReturn(objs, bucket, n, date, dataFault, metaFault) ==
    IF n = 0 THEN Returned(None, objs)
    ELSE IF ~SplitOk(date) THEN Raised(ErrUnpack, objs)
    ELSE LET s3_key == uploadKey(date, "events")
             put == put_object(objs, bucket, s3_key, dataFault)
         IN  IF put.exc # None THEN Raised(ErrPut, objs)
             ELSE Returned(None,
                           upload_metadata(put.objects, bucket, s3_key, metaFault))

upload_events(objs, bucket, n, date, dataFault, metaFault) ==
    IF n = 0 THEN Returned(None, objs)
    ELSE IF ~SplitOk(date) THEN Raised(ErrUnpack, objs)
    ELSE LET s3_key == uploadKey(date, "events")
             put == put_object(objs, bucket, s3_key, dataFault)
         IN  IF put.exc # None THEN Raised(ErrPut, objs)
             ELSE Returned(Some(s3_key),
                           upload_metadata(put.objects, bucket, s3_key, metaFault))

\* --------------------------------------------------------- BigQueryExtractor
ExtractOutcomes ==
    {[kind |-> "no_table", rows |-> 0], [kind |-> "error", rows |-> 0]}
        \cup {[kind |-> "rows", rows |-> n] : n \in {0, 1, MaxRecords}}

\* returns len(df) of the DataFrame, or raises
extract_events(date, outcome) ==
    IF outcome.kind = "no_table" THEN Returned(0, {})
    ELSE IF outcome.kind = "error" THEN Raised(ErrQuery, {})
    ELSE Returned(outcome.rows, {})

\* list_objects_v2(Prefix=prefix, Delimiter='/'): the keys under the prefix
\* rolled up to the next '/'
CommonPrefixes(objs, prefix) ==
    {SubSeq(key, 1, Len(prefix) + 1) :
        key \in {o \in objs : /\ Len(o) > Len(prefix) + 1
                              /\ SubSeq(o, 1, Len(prefix)) = prefix}}

\* [p for p in path_parts if p.startswith(name + '=')]
partsStarting(path_parts, name) ==
    SelectSeq(path_parts, LAMBDA p : p.k = name /\ p.v # -1)

\* list_available_dates lines 196-210: the date of one common prefix, or
\* None on IndexError
prefixDate(path_parts) ==
    LET years == partsStarting(path_parts, "year")
        months == partsStarting(path_parts, "month")
        days == partsStarting(path_parts, "day")
    IN  IF years = <<>> \/ months = <<>> \/ days = <<>> THEN None
        ELSE Some(<<years[1].v, months[1].v, days[1].v>>)

RECURSIVE prefixDates(_)
prefixDates(cps) ==
    IF cps = <<>> THEN <<>>
    ELSE prefixDate(Head(cps)) \o prefixDates(Tail(cps))

\* list_objects_v2 raises: a fault, or the bucket is missing
listFails(bucket, fault) == fault \/ ~bucket

list_available_dates(objs, bucket, data_type, limit, fault) ==
    IF listFails(bucket, fault) THEN <<>>
    ELSE Take(sortedReverse(prefixDates(
             SetToSeq(CommonPrefixes(objs, Prefix \o <<Lit(data_type)>>)))), limit)

HeadFaults == {"none", "403", "other"}

\* s3_client.head_bucket
head_bucket(bucket, fault) ==
    IF fault = "403" THEN "403"
    ELSE IF fault = "other" THEN "exception"
    ELSE IF bucket THEN "200" ELSE "404"

\* test_connection that creates a missing bucket in every mode
loader_test_connection_alwaysCreate(bucket, localstack, headFault, createFault) ==
    LET code == head_bucket(bucket, headFault)
    IN  IF code = "200" THEN [val |-> TRUE, bucket |-> bucket]
        ELSE IF code = "404"
        THEN IF createFault THEN [val |-> FALSE, bucket |-> bucket]
             ELSE [val |-> TRUE, bucket |-> TRUE]
        ELSE [val |-> FALSE, bucket |-> bucket]

\* S3Loader.test_connection: the value returned and the bucket afterwards
loader_test_connection(bucket, localstack, headFault, createFault) ==
    LET code == head_bucket(bucket, headFault)
    IN  IF code = "200" THEN [val |-> TRUE, bucket |-> bucket]
        ELSE IF localstack /\ code = "404"
        THEN IF createFault THEN [val |-> FALSE, bucket |-> bucket]
             ELSE [val |-> TRUE, bucket |-> TRUE]
        ELSE [val |-> FALSE, bucket |-> bucket]

DaysBack == 30
Limit == 30

\* a table id is "head_rest[1]_rest[2]..."; a part is a run of digits (read
\* as year, month, day) or a word
Digits(ymd) == [digits |-> TRUE, ymd |-> ymd]
Word == [digits |-> FALSE, ymd |-> <<0, 0, 0>>]
Table(head, rest) == [head |-> head, rest |-> rest]

\* table_id.startswith("events_")
isEventsTable(t) == t.head = "events" /\ Len(t.rest) >= 1

\* get_available_dates lines 147-161: the date of one table, or None
tableDate(t, today, days_back) ==
    IF ~isEventsTable(t) THEN None
    ELSE LET date_str == t.rest[1]
         IN  IF ~date_str.digits \/ ~ValidDate(date_str.ymd) THEN None
             ELSE LET date_obj == strptime(date_str.ymd)
                  IN  IF today - date_obj <= days_back
                      THEN Some(strftime(date_obj)) ELSE None

RECURSIVE tableDates(_, _, _)
tableDates(tables, today, days_back) ==
    IF tables = <<>> THEN <<>>
    ELSE tableDate(Head(tables), today, days_back)
             \o tableDates(Tail(tables), today, days_back)

get_available_dates(tables, today, days_back) ==
    sortedReverse(tableDates(tables, today, days_back))

\* BigQueryExtractor.test_connection: any failure gives False
extractor_test_connection(ok) == ok

\* events_YYYYMMDD for the dates, events_intraday_YYYYMMDD, users_YYYYMMDD
TableIds ==
    {Table("events", <<Digits(d)>>) : d \in Dates}
        \cup {Table("events", <<Word, Digits(strftime(WindowFirst))>>),
              Table("users", <<Digits(strftime(WindowFirst))>>)}

\* list_tables answers with distinct tables, in either direction of its order
Reverse(s) == [i \in 1..Len(s) |-> s[Len(s) + 1 - i]]

TableListings ==
    LET listed == {SetToSeq(S) : S \in {T \in SUBSET TableIds : Cardinality(T) <= MaxTables}}
    IN  listed \cup {Reverse(l) : l \in listed}

Todays == {WindowFirst + WindowLen - 1, WindowFirst + DaysBack + 1}

\* ------------------------------------------------------------------ Pipeline
NoOp == [name |-> "none"]
NoRet == [kind |-> "none"]
NoPrev == [date |-> None, success |-> FALSE, live |-> FALSE]
NoResult == [date |-> None, success |-> FALSE, records_extracted |-> 0,
             s3_key |-> None, error |-> None, skipped |-> FALSE]
NoResults == [start_date |-> None, end_date |-> None, total_days |-> 0,
              successful_days |-> <<>>, failed_days |-> <<>>,
              skipped_days |-> <<>>, total_records |-> 0]

NoExit == -1

NoStatus == [connections |-> [bigquery |-> FALSE, s3 |-> FALSE],
             bigquery_available_dates |-> <<>>, s3_available_dates |-> <<>>,
             missing_dates |-> <<>>]

newResult(date) ==
    [date |-> date, success |-> FALSE, records_extracted |-> 0,
     s3_key |-> None, error |-> None, skipped |-> FALSE]

\* an entry of the call log: the function, its date argument, what it raised,
\* for upload_events what became of its metadata write, for extract_events
\* the number of rows it returned, for check_exists whether the bucket held
\* the day's data object when it was called and what head_object answered
Call(fn, date, exc) ==
    [fn |-> fn, date |-> date, exc |-> exc, meta |-> "none", rows |-> 0,
     present |-> FALSE, head |-> "none"]

\* two processes that call run_daily at the same time
Workers == {1, 2}

\* a process that has not called run_daily yet
IdleWorker == [pc |-> "idle", result |-> NoResult, df |-> 0]

Init ==
    /\ objects = {}
    /\ bucket_exists \in BOOLEAN
    /\ pc = "idle"
    /\ op = NoOp
    /\ result = NoResult
    /\ df = 0
    /\ results = NoResults
    /\ current_date = 0
    /\ calls = <<>>
    /\ status = NoStatus
    /\ ret = NoRet
    /\ prev = NoPrev
    /\ exit_code = NoExit
    /\ workers = [w \in Workers |-> IdleWorker]
    /\ trace = <<>>

\* run_daily lines 92-104: resolve the date, build the result dict
RunDailyCall(date, yesterday, skip_existing) ==
    /\ pc = "idle"
    /\ LET d == IF date = None THEN yesterday ELSE date
       IN  /\ op' = [name |-> "run_daily", date |-> d, skip_existing |-> skip_existing]
           /\ result' = newResult(d)
           /\ prev' = IF skip_existing /\ prev.live /\ prev.date = d THEN prev ELSE NoPrev
    /\ df' = 0
    /\ calls' = <<>>
    /\ ret' = NoRet
    /\ pc' = IF skip_existing THEN "check" ELSE "extract"
    /\ exit_code' = NoExit
    /\ UNCHANGED raceVars
    /\ UNCHANGED <<sinkVars, results, current_date, status>>

\* RunDailyCheck without the return of line 112: a found day is extracted
RunDailyCheck_noReturn(fault) ==
    /\ pc = "check"
    /\ LET r == check_exists(objects, result.date, fault)
       IN  /\ calls' = Append(calls, [Call("check_exists", result.date, r.exc)
                                         EXCEPT !.present =
                                             /\ SplitOk(result.date)
                                             /\ uploadKey(result.date, "events") \in objects,
                                                !.head =
                                             IF ~SplitOk(result.date) THEN "none"
                                             ELSE head_object(objects,
                                                      checkKey(result.date, "events"),
                                                      fault)])
           /\ IF r.exc # None
              THEN /\ result' = [result EXCEPT !.error = r.exc]
                   /\ pc' = "return"
              ELSE IF r.val
              THEN /\ result' = [result EXCEPT !.skipped = TRUE, !.success = TRUE]
                   /\ pc' = "extract"
              ELSE /\ result' = result
                   /\ pc' = "extract"
    /\ UNCHANGED <<raceVars, exit_code, sinkVars, op, df, results, current_date, status, ret, prev>>

\* RunDailyCheck with the test of line 108 inverted: skips what is absent
RunDailyCheck_skipIfAbsent(fault) ==
    /\ pc = "check"
    /\ LET r == check_exists(objects, result.date, fault)
       IN  /\ calls' = Append(calls, [Call("check_exists", result.date, r.exc)
                                         EXCEPT !.present =
                                             /\ SplitOk(result.date)
                                             /\ uploadKey(result.date, "events") \in objects,
                                                !.head =
                                             IF ~SplitOk(result.date) THEN "none"
                                             ELSE head_object(objects,
                                                      checkKey(result.date, "events"),
                                                      fault)])
           /\ IF r.exc # None
              THEN /\ result' = [result EXCEPT !.error = r.exc]
                   /\ pc' = "return"
              ELSE IF ~r.val
              THEN /\ result' = [result EXCEPT !.skipped = TRUE, !.success = TRUE]
                   /\ pc' = "return"
              ELSE /\ result' = result
                   /\ pc' = "extract"
    /\ UNCHANGED <<raceVars, exit_code, sinkVars, op, df, results, current_date, status, ret, prev>>

\* run_daily lines 108-112 (and 133-135 when check_exists raises)
RunDailyCheck(fault) ==
    /\ pc = "check"
    /\ LET r == check_exists(objects, result.date, fault)
       IN  /\ calls' = Append(calls, [Call("check_exists", result.date, r.exc)
                                         EXCEPT !.present =
                                             /\ SplitOk(result.date)
                                             /\ uploadKey(result.date, "events") \in objects,
                                                !.head =
                                             IF ~SplitOk(result.date) THEN "none"
                                             ELSE head_object(objects,
                                                      checkKey(result.date, "events"),
                                                      fault)])
           /\ IF r.exc # None
              THEN /\ result' = [result EXCEPT !.error = r.exc]
                   /\ pc' = "return"
              ELSE IF r.val
              THEN /\ result' = [result EXCEPT !.skipped = TRUE, !.success = TRUE]
                   /\ pc' = "return"
              ELSE /\ result' = result
                   /\ pc' = "extract"
    /\ UNCHANGED <<raceVars, exit_code, sinkVars, op, df, results, current_date, status, ret, prev>>

\* RunDailyExtract that calls extract_events again after it raised
RunDailyExtract_retry(outcome) ==
    /\ pc = "extract"
    /\ LET r == extract_events(result.date, outcome)
       IN  /\ calls' = Append(calls, [Call("extract_events", result.date, r.exc)
                                         EXCEPT !.rows = IF r.exc = None THEN r.val ELSE 0])
           /\ IF r.exc # None
              THEN /\ result' = result
                   /\ df' = 0
                   /\ pc' = "extract"
              ELSE IF r.val = 0
              THEN /\ result' = [result EXCEPT !.error = Some(NoDataFound)]
                   /\ df' = 0
                   /\ pc' = "return"
              ELSE /\ result' = [result EXCEPT !.records_extracted = r.val]
                   /\ df' = r.val
                   /\ pc' = "upload"
    /\ UNCHANGED <<raceVars, exit_code, sinkVars, op, results, current_date, status, ret, prev>>

\* RunDailyExtract without line 123: records_extracted is left at 0
RunDailyExtract_noCount(outcome) ==
    /\ pc = "extract"
    /\ LET r == extract_events(result.date, outcome)
       IN  /\ calls' = Append(calls, [Call("extract_events", result.date, r.exc)
                                         EXCEPT !.rows = IF r.exc = None THEN r.val ELSE 0])
           /\ IF r.exc # None
              THEN /\ result' = [result EXCEPT !.error = r.exc]
                   /\ df' = 0
                   /\ pc' = "return"
              ELSE IF r.val = 0
              THEN /\ result' = [result EXCEPT !.error = Some(NoDataFound)]
                   /\ df' = 0
                   /\ pc' = "return"
              ELSE /\ result' = result
                   /\ df' = r.val
                   /\ pc' = "upload"
    /\ UNCHANGED <<raceVars, exit_code, sinkVars, op, results, current_date, status, ret, prev>>

\* RunDailyExtract without the emptiness test of lines 118-121
RunDailyExtract_noEmptyTest(outcome) ==
    /\ pc = "extract"
    /\ LET r == extract_events(result.date, outcome)
       IN  /\ calls' = Append(calls, [Call("extract_events", result.date, r.exc)
                                         EXCEPT !.rows = IF r.exc = None THEN r.val ELSE 0])
           /\ IF r.exc # None
              THEN /\ result' = [result EXCEPT !.error = r.exc]
                   /\ df' = 0
                   /\ pc' = "return"
              ELSE /\ result' = [result EXCEPT !.records_extracted = r.val]
                   /\ df' = r.val
                   /\ pc' = "upload"
    /\ UNCHANGED <<raceVars, exit_code, sinkVars, op, results, current_date, status, ret, prev>>

\* run_daily lines 116-123 (and 133-135 when extract_events raises)
RunDailyExtract(outcome) ==
    /\ pc = "extract"
    /\ LET r == extract_events(result.date, outcome)
       IN  /\ calls' = Append(calls, [Call("extract_events", result.date, r.exc)
                                         EXCEPT !.rows = IF r.exc = None THEN r.val ELSE 0])
           /\ IF r.exc # None
              THEN /\ result' = [result EXCEPT !.error = r.exc]
                   /\ df' = 0
                   /\ pc' = "return"
              ELSE IF r.val = 0
              THEN /\ result' = [result EXCEPT !.error = Some(NoDataFound)]
                   /\ df' = 0
                   /\ pc' = "return"
              ELSE /\ result' = [result EXCEPT !.records_extracted = r.val]
                   /\ df' = r.val
                   /\ pc' = "upload"
    /\ UNCHANGED <<raceVars, exit_code, sinkVars, op, results, current_date, status, ret, prev>>

\* run_daily lines 127-130 (and 133-135 when upload_events raises)
RunDailyUpload(dataFault, metaFault) ==
    /\ pc = "upload"
    /\ LET r == upload_events(objects, bucket_exists, df, result.date, dataFault, metaFault)
           put == put_object(objects, bucket_exists, uploadKey(result.date, "events"),
                             dataFault)
           meta == IF ~SplitOk(result.date) \/ put.exc # None THEN "none"
                   ELSE metadataWrite(put.objects, bucket_exists,
                                      uploadKey(result.date, "events"), metaFault)
       IN  /\ calls' = Append(calls, [Call("upload_events", result.date, r.exc)
                                         EXCEPT !.meta = meta])
           /\ objects' = r.objects
           /\ IF r.exc # None
              THEN result' = [result EXCEPT !.error = r.exc]
              ELSE result' = [result EXCEPT !.s3_key = r.val, !.success = TRUE]
    /\ pc' = "return"
    /\ UNCHANGED <<raceVars, exit_code, bucket_exists, op, df, results, current_date, status, ret, prev>>

\* run_daily line 137 (or 112, 121), called by the driver
RunDailyReturn ==
    /\ pc = "return"
    /\ op.name = "run_daily"
    /\ ret' = [kind |-> "run_daily", op |-> op, result |-> result, calls |-> calls,
               prev |-> prev]
    /\ prev' = IF op.skip_existing
                THEN [date |-> op.date, success |-> result.success, live |-> TRUE]
                ELSE NoPrev
    /\ pc' = "done"
    /\ op' = NoOp
    /\ result' = NoResult
    /\ df' = 0
    /\ calls' = <<>>
    /\ UNCHANGED <<raceVars, exit_code, sinkVars, results, current_date, status>>


\* backfill without its range check
invalidRange_never(start, end) == FALSE

\* backfill line 159
invalidRange(start, end) == start > end

\* backfill lines 156-172: parse, validate the range, build the results dict
BackfillCall(start_date, end_date, skip_existing) ==
    /\ pc = "idle"
    /\ calls' = <<>>
    /\ result' = NoResult
    /\ df' = 0
    /\ IF ~ValidDate(start_date) \/ ~ValidDate(end_date)
       THEN /\ ret' = [kind |-> "backfill_raise", exc |-> "ValueError", msg |-> ErrFormat,
                       start_date |-> start_date, end_date |-> end_date,
                       calls |-> <<>>, objects_before |-> objects,
                       results |-> NoResults]
            /\ pc' = "done"
            /\ UNCHANGED <<op, results, current_date>>
       ELSE LET start == strptime(start_date)
                end == strptime(end_date)
            IN  IF invalidRange(start, end)
                THEN /\ ret' = [kind |-> "backfill_raise", exc |-> "ValueError", msg |-> ErrRange,
                                start_date |-> start_date, end_date |-> end_date,
                                calls |-> <<>>, objects_before |-> objects,
                                results |-> NoResults]
                     /\ pc' = "done"
                     /\ UNCHANGED <<op, results, current_date>>
                ELSE /\ op' = [name |-> "backfill", start |-> start, end |-> end,
                               skip_existing |-> skip_existing]
                     /\ results' = [start_date |-> start_date, end_date |-> end_date,
                                    total_days |-> (end - start) + 1,
                                    successful_days |-> <<>>, failed_days |-> <<>>,
                                    skipped_days |-> <<>>, total_records |-> 0]
                     /\ current_date' = start
                     /\ ret' = NoRet
                     /\ pc' = "bf_loop"
    /\ prev' = NoPrev
    /\ exit_code' = NoExit
    /\ UNCHANGED raceVars
    /\ UNCHANGED <<sinkVars, status>>

\* backfill lines 175-179: loop test, then the call of run_daily (lines 95-104)
BackfillNextDay ==
    /\ pc = "bf_loop"
    /\ current_date <= op.end
    /\ LET date_str == strftime(current_date)
       IN  /\ result' = newResult(date_str)
           /\ calls' = Append(calls, Call("run_daily", date_str, None))
    /\ df' = 0
    /\ pc' = IF op.skip_existing THEN "check" ELSE "extract"
    /\ UNCHANGED <<raceVars, exit_code, sinkVars, op, results, current_date, status, ret, prev>>

\* recordDay with the 'else' of the skipped test missing
recordDay_noElse(res, date_str, day_result) ==
    IF day_result.success
    THEN LET r1 == IF day_result.skipped
                   THEN [res EXCEPT !.skipped_days = Append(@, date_str)]
                   ELSE res
         IN  [r1 EXCEPT !.successful_days = Append(@, date_str),
                        !.total_records = @ + day_result.records_extracted]
    ELSE [res EXCEPT !.failed_days =
              Append(@, [date |-> date_str, error |-> day_result.error])]

\* recordDay that records every failed day as a day without data
recordDay_noData(res, date_str, day_result) ==
    IF day_result.success
    THEN IF day_result.skipped
         THEN [res EXCEPT !.skipped_days = Append(@, date_str)]
         ELSE [res EXCEPT !.successful_days = Append(@, date_str),
                          !.total_records = @ + day_result.records_extracted]
    ELSE [res EXCEPT !.failed_days =
              Append(@, [date |-> date_str, error |-> Some(NoDataFound)])]

\* recordDay that counts the rows of every day, loaded or not
recordDay_countAll(res, date_str, day_result) ==
    IF day_result.success
    THEN IF day_result.skipped
         THEN [res EXCEPT !.skipped_days = Append(@, date_str)]
         ELSE [res EXCEPT !.successful_days = Append(@, date_str),
                          !.total_records = @ + day_result.records_extracted]
    ELSE [res EXCEPT !.failed_days =
              Append(@, [date |-> date_str, error |-> day_result.error]),
                     !.total_records = @ + day_result.records_extracted]

\* backfill lines 181-191
recordDay(res, date_str, day_result) ==
    IF day_result.success
    THEN IF day_result.skipped
         THEN [res EXCEPT !.skipped_days = Append(@, date_str)]
         ELSE [res EXCEPT !.successful_days = Append(@, date_str),
                          !.total_records = @ + day_result.records_extracted]
    ELSE [res EXCEPT !.failed_days =
              Append(@, [date |-> date_str, error |-> day_result.error])]

\* BackfillRecord that leaves the loop at the first failed day
BackfillRecord_stopOnFailure ==
    /\ pc = "return"
    /\ op.name = "backfill"
    /\ result' = NoResult
    /\ df' = 0
    /\ IF current_date + 1 > MaxOrdinal
       THEN /\ ret' = [kind |-> "backfill_raise", exc |-> "OverflowError", msg |-> ErrOverflow,
                       start_date |-> results.start_date, end_date |-> results.end_date,
                       calls |-> calls,
                       results |-> recordDay(results, strftime(current_date), result)]
            /\ pc' = "done"
            /\ op' = NoOp
            /\ calls' = <<>>
            /\ results' = NoResults
            /\ current_date' = 0
       ELSE /\ results' = recordDay(results, strftime(current_date), result)
            /\ current_date' = IF result.success THEN current_date + 1 ELSE op.end + 1
            /\ pc' = "bf_loop"
            /\ UNCHANGED <<op, calls, ret>>
    /\ UNCHANGED <<raceVars, exit_code, sinkVars, status, prev>>

\* backfill lines 179-200: run_daily returned; record the day, advance
BackfillRecord ==
    /\ pc = "return"
    /\ op.name = "backfill"
    /\ result' = NoResult
    /\ df' = 0
    /\ IF current_date + 1 > MaxOrdinal
       THEN \* current_date += timedelta(days=1) raises OverflowError
            /\ ret' = [kind |-> "backfill_raise", exc |-> "OverflowError", msg |-> ErrOverflow,
                       start_date |-> results.start_date, end_date |-> results.end_date,
                       calls |-> calls,
                       results |-> recordDay(results, strftime(current_date), result)]
            /\ pc' = "done"
            /\ op' = NoOp
            /\ calls' = <<>>
            /\ results' = NoResults
            /\ current_date' = 0
       ELSE /\ results' = recordDay(results, strftime(current_date), result)
            /\ current_date' = current_date + 1
            /\ pc' = "bf_loop"
            /\ UNCHANGED <<op, calls, ret>>
    /\ UNCHANGED <<raceVars, exit_code, sinkVars, status, prev>>

\* backfill lines 175, 202-206: the loop ends, the results are returned
BackfillReturn ==
    /\ pc = "bf_loop"
    /\ current_date > op.end
    /\ ret' = [kind |-> "backfill", exc |-> "", msg |-> "",
               skip_existing |-> op.skip_existing,
               start_date |-> results.start_date, end_date |-> results.end_date,
               calls |-> calls,
               results |-> results]
    /\ pc' = "done"
    /\ op' = NoOp
    /\ results' = NoResults
    /\ current_date' = 0
    /\ calls' = <<>>
    /\ UNCHANGED <<raceVars, exit_code, sinkVars, result, df, status, prev>>

\* test_connections that probes the sink only when the source answered
test_connections_sourceFirst(bucket, localstack, bqOk, headFault, createFault) ==
    LET s3 == loader_test_connection(bucket, localstack, headFault, createFault)
    IN  IF extractor_test_connection(bqOk)
        THEN [bigquery |-> TRUE, s3 |-> s3.val, bucket |-> s3.bucket]
        ELSE [bigquery |-> FALSE, s3 |-> FALSE, bucket |-> bucket]

\* test_connections lines 212-232
test_connections(bucket, localstack, bqOk, headFault, createFault) ==
    LET s3 == loader_test_connection(bucket, localstack, headFault, createFault)
    IN  [bigquery |-> extractor_test_connection(bqOk), s3 |-> s3.val, bucket |-> s3.bucket]

TestConnections(use_localstack, bqOk, headFault, createFault) ==
    /\ pc = "idle"
    /\ LET c == test_connections(bucket_exists, use_localstack, bqOk, headFault, createFault)
       IN  /\ bucket_exists' = c.bucket
           /\ ret' = [kind |-> "connections",
                      connections |-> [bigquery |-> c.bigquery, s3 |-> c.s3],
                      args |-> [use_localstack |-> use_localstack, bqOk |-> bqOk,
                                headFault |-> headFault, createFault |-> createFault,
                                bucket_before |-> bucket_exists]]
    /\ pc' = "done"
    /\ prev' = NoPrev
    /\ exit_code' = NoExit
    /\ UNCHANGED raceVars
    /\ UNCHANGED <<objects, op, result, df, results, current_date, calls,
                   status>>

\* missing_dates with the membership test inverted
missingDates_inverted(bq_dates, s3_dates) ==
    SelectSeq(bq_dates, LAMBDA date : date \in Range(s3_dates))

\* [date for date in bq_dates if date not in s3_dates]
missingDates(bq_dates, s3_dates) ==
    SelectSeq(bq_dates, LAMBDA date : date \notin Range(s3_dates))

\* get_pipeline_status lines 236-241: the connection tests, the empty lists
StatusCall(use_localstack, bqOk, headFault, createFault) ==
    /\ pc = "idle"
    /\ LET c == test_connections(bucket_exists, use_localstack, bqOk, headFault, createFault)
       IN  /\ bucket_exists' = c.bucket
           /\ status' = [NoStatus EXCEPT
                             !.connections = [bigquery |-> c.bigquery, s3 |-> c.s3]]
    /\ pc' = "status_dates"
    /\ prev' = NoPrev
    /\ exit_code' = NoExit
    /\ UNCHANGED raceVars
    /\ UNCHANGED <<objects, op, result, df, results, current_date,
                   calls, ret>>

\* the table listing of the dataset, or its failure
TableOutcomes ==
    {[fault |-> TRUE, tables |-> <<>>, today |-> WindowFirst]}
        \cup {[fault |-> FALSE, tables |-> l, today |-> t] :
                 l \in TableListings, t \in Todays}

\* client.list_tables inside get_available_dates
list_tables(bq) ==
    IF bq.fault THEN Raised(ErrList, {}) ELSE Returned(bq.tables, {})

\* an entry of the log of a status call: the listing function, what it raised,
\* what it returned, whether the listing inside it failed
Listing(fn, exc, val, failed) == [fn |-> fn, exc |-> exc, val |-> val, failed |-> failed]

\* statusDates without the try around the two listings
statusDates_noTry(st, bq, objs, bucket, listFault) ==
    LET tables == list_tables(bq)
    IN  IF tables.exc # None
        THEN [exc |-> tables.exc, status |-> st,
              calls |-> <<Listing("get_available_dates", tables.exc, <<>>, TRUE)>>]
        ELSE LET bq_dates == get_available_dates(tables.val, bq.today, DaysBack)
                 s3_dates == list_available_dates(objs, bucket, "events", Limit, listFault)
             IN  [exc |-> None,
                  status |-> [st EXCEPT
                                 !.bigquery_available_dates = bq_dates,
                                 !.s3_available_dates = s3_dates,
                                 !.missing_dates = missingDates(bq_dates, s3_dates)],
                  calls |-> <<Listing("get_available_dates", None, bq_dates, FALSE),
                              Listing("list_available_dates", None, s3_dates,
                                      listFails(bucket, listFault))>>]

\* get_pipeline_status lines 243-255: the two listings in one try; what is
\* raised out of it, the status dict after it, the listings called
statusDates(st, bq, objs, bucket, listFault) ==
    LET tables == list_tables(bq)
    IN  IF tables.exc # None
        THEN [exc |-> None, status |-> st,
              calls |-> <<Listing("get_available_dates", tables.exc, <<>>, TRUE)>>]
        ELSE LET bq_dates == get_available_dates(tables.val, bq.today, DaysBack)
                 s3_dates == list_available_dates(objs, bucket, "events", Limit, listFault)
             IN  [exc |-> None,
                  status |-> [st EXCEPT
                                 !.bigquery_available_dates = bq_dates,
                                 !.s3_available_dates = s3_dates,
                                 !.missing_dates = missingDates(bq_dates, s3_dates)],
                  calls |-> <<Listing("get_available_dates", None, bq_dates, FALSE),
                              Listing("list_available_dates", None, s3_dates,
                                      listFails(bucket, listFault))>>]

\* get_pipeline_status lines 243-257
StatusDates(bq, listFault) ==
    /\ pc = "status_dates"
    /\ LET r == statusDates(status, bq, objects, bucket_exists, listFault)
       IN  ret' = [kind |-> IF r.exc # None THEN "status_raise" ELSE "status",
                   status |-> IF r.exc # None THEN NoStatus ELSE r.status,
                   calls |-> r.calls]
    /\ status' = NoStatus
    /\ pc' = "done"
    /\ UNCHANGED <<raceVars, exit_code, sinkVars, op, result, df, results, current_date, calls, prev>>

\* scripts/run_pipeline.py main lines 69-137: the value main returns to
\* sys.exit; an exception out of main ends the process with code 1
exitCode(r) ==
    IF r.kind = "connections"
    THEN (IF r.connections.bigquery /\ r.connections.s3 THEN 0 ELSE 1)
    ELSE IF r.kind = "status" THEN 0
    ELSE IF r.kind = "backfill"
    THEN (IF r.results.failed_days = <<>> THEN 0 ELSE 1)
    ELSE IF r.kind = "run_daily"
    THEN (IF r.result.success THEN 0 ELSE 1)
    ELSE IF r.kind = "setup"
    THEN (IF r.ok THEN 0 ELSE 1)
    ELSE 1

\* scripts/run_pipeline.py: main returns, the process ends; the bucket stays
DriverExit ==
    /\ pc = "done"
    /\ pc' = "idle"
    /\ ret' = NoRet
    /\ exit_code' = exitCode(ret)
    /\ UNCHANGED <<raceVars, sinkVars, op, result, df, results, current_date, calls, status, prev>>

\* what ends the driver's process before any operation: the import of line
\* 15, the attribute reads of lines 18-20, parse_args of line 43 (a usage
\* error, or --help), Settings.validate of line 49
StartupExits == {"ImportError", "AttributeError", "usage", "help", "ValueError"}

\* config/settings.py Settings.validate: the required variables that are None
Required == {"GCP_PROJECT_ID", "GA4_DATASET_ID", "S3_BUCKET"}

\* validate returns True, or raises ValueError when a variable is missing
validate(missing) == missing = {}

\* the status the process ends with: argparse exits 2 on a usage error and 0
\* after --help; an uncaught exception and main's 'return 1' give 1
startupCode(cause) ==
    IF cause = "usage" THEN 2 ELSE IF cause = "help" THEN 0 ELSE 1

\* scripts/run_pipeline.py lines 15-20, 43 and 47-53: the process ends
\* before a Pipeline exists; nothing was called
StartupExit(cause, missing) ==
    /\ pc = "idle"
    /\ cause = "ValueError" => ~validate(missing)
    /\ exit_code' = startupCode(cause)
    /\ prev' = NoPrev
    /\ UNCHANGED <<raceVars, sinkVars, pc, op, result, df, results, current_date, calls,
                   status, ret>>

\* scripts/setup_localstack.py line 98
testKey == <<Lit("test"), Lit("hello.txt")>>

\* what setup_localstack.main hands to sys.exit through the driver's exit
SetupResult(ok) == [kind |-> "setup", ok |-> ok]

\* setup_localstack.main lines 152-158: check_docker, start_localstack
SetupCall(dockerOk, startOk) ==
    /\ pc = "idle"
    /\ IF dockerOk /\ startOk
       THEN /\ pc' = "ls_create"
            /\ ret' = NoRet
       ELSE /\ pc' = "done"
            /\ ret' = SetupResult(FALSE)
    /\ prev' = NoPrev
    /\ exit_code' = NoExit
    /\ UNCHANGED raceVars
    /\ UNCHANGED <<sinkVars, op, result, df, results, current_date, calls, status>>

\* test_localstack lines 76-95: the client, then create_bucket; only
\* BucketAlreadyExists is let through
LocalstackCreate(endpoint, fault) ==
    /\ pc = "ls_create"
    /\ fault = "BucketAlreadyExists" => bucket_exists
    /\ IF ~endpoint \/ fault = "other"
       THEN /\ pc' = "done"
            /\ ret' = SetupResult(FALSE)
            /\ bucket_exists' = bucket_exists
       ELSE /\ pc' = "ls_put"
            /\ ret' = ret
            /\ bucket_exists' = (bucket_exists \/ fault = "none")
    /\ UNCHANGED <<raceVars, exit_code, objects, op, result, df, results, current_date,
                   calls, status, prev>>

\* test_localstack lines 101-106
LocalstackPut(fault) ==
    /\ pc = "ls_put"
    /\ LET put == put_object(objects, bucket_exists, testKey, fault)
       IN  /\ objects' = put.objects
           /\ IF put.exc # None
              THEN /\ pc' = "done"
                   /\ ret' = SetupResult(FALSE)
              ELSE /\ pc' = "ls_get"
                   /\ ret' = ret
    /\ UNCHANGED <<raceVars, exit_code, bucket_exists, op, result, df, results,
                   current_date, calls, status, prev>>

\* test_localstack lines 109-121: get_object and the comparison
LocalstackGet(outcome) ==
    /\ pc = "ls_get"
    /\ IF outcome = "same" /\ testKey \in objects
       THEN /\ pc' = "ls_delete"
            /\ ret' = ret
       ELSE /\ pc' = "done"
            /\ ret' = SetupResult(FALSE)
    /\ UNCHANGED <<raceVars, exit_code, sinkVars, op, result, df, results, current_date,
                   calls, status, prev>>

\* test_localstack lines 116-118 (and 123-125 when delete_object raises)
LocalstackDelete(fault) ==
    /\ pc = "ls_delete"
    /\ IF fault
       THEN /\ objects' = objects
            /\ ret' = SetupResult(FALSE)
       ELSE /\ objects' = objects \ {testKey}
            /\ ret' = SetupResult(TRUE)
    /\ pc' = "done"
    /\ UNCHANGED <<raceVars, exit_code, bucket_exists, op, result, df, results,
                   current_date, calls, status, prev>>

Next ==
    \/ /\ pc = "idle"
       /\ \E date \in DateArgs \cup {None}, skip_existing \in BOOLEAN :
              \E yesterday \in IF date = None THEN Dates ELSE {date} :
                  RunDailyCall(date, yesterday, skip_existing)
    \/ /\ pc = "check"
       /\ \E fault \in BOOLEAN : RunDailyCheck(fault)
    \/ /\ pc = "extract"
       /\ \E outcome \in ExtractOutcomes : RunDailyExtract(outcome)
    \/ /\ pc = "upload"
       /\ \E dataFault \in BOOLEAN, metaFault \in BOOLEAN : RunDailyUpload(dataFault, metaFault)
    \/ RunDailyReturn
    \/ /\ pc = "idle"
       /\ \E start_date \in DateArgs, end_date \in DateArgs, skip_existing \in BOOLEAN :
              /\ (ValidDate(start_date) /\ ValidDate(end_date))
                     => strptime(end_date) - strptime(start_date) < WindowLen
              /\ BackfillCall(start_date, end_date, skip_existing)
    \/ BackfillNextDay
    \/ BackfillRecord
    \/ BackfillReturn
    \/ /\ pc = "idle"
       /\ \E use_localstack \in BOOLEAN, bqOk \in BOOLEAN, headFault \in HeadFaults,
             createFault \in BOOLEAN :
              TestConnections(use_localstack, bqOk, headFault, createFault)
    \/ /\ pc = "idle"
       /\ \E use_localstack \in BOOLEAN, bqOk \in BOOLEAN, headFault \in HeadFaults,
             createFault \in BOOLEAN :
              StatusCall(use_localstack, bqOk, headFault, createFault)
    \/ /\ pc = "status_dates"
       /\ \E bq \in TableOutcomes, listFault \in BOOLEAN : StatusDates(bq, listFault)
    \/ DriverExit
    \/ /\ pc = "idle"
       /\ \E cause \in StartupExits :
              \E missing \in IF cause = "ValueError" THEN SUBSET Required ELSE {{}} :
                  StartupExit(cause, missing)
    \/ /\ pc = "idle"
       /\ \E dockerOk \in BOOLEAN, startOk \in BOOLEAN : SetupCall(dockerOk, startOk)
    \/ /\ pc = "ls_create"
       /\ \E endpoint \in BOOLEAN, fault \in {"none", "BucketAlreadyExists", "other"} :
              LocalstackCreate(endpoint, fault)
    \/ /\ pc = "ls_put"
       /\ \E fault \in BOOLEAN : LocalstackPut(fault)
    \/ /\ pc = "ls_get"
       /\ \E outcome \in {"same", "differs", "error"} : LocalstackGet(outcome)
    \/ /\ pc = "ls_delete"
       /\ \E fault \in BOOLEAN : LocalstackDelete(fault)

Spec == Init /\ [][Next]_vars

\* ------------------------------------------------- concurrent run_daily calls
\* the dates the concurrent invocations are called with
RaceDates == {strftime(n) : n \in WindowFirst .. WindowFirst + WindowLen - 1}

\* an entry of the global call order: the process and its call
Event(w, c) == [w |-> w, call |-> c]

\* run_daily(date, skip_existing=True) lines 92-104 in process w
WorkerCall(w, date) ==
    /\ workers[w].pc = "idle"
    /\ workers' = [workers EXCEPT ![w] = [pc |-> "check", result |-> newResult(date),
                                          df |-> 0]]
    /\ UNCHANGED <<sinkVars, driverVars, trace>>

\* run_daily lines 108-112 (and 133-135, 137) in process w
WorkerCheck(w, fault) ==
    /\ workers[w].pc = "check"
    /\ LET res == workers[w].result
           r == check_exists(objects, res.date, fault)
       IN  /\ trace' = Append(trace, Event(w,
                           [Call("check_exists", res.date, r.exc)
                               EXCEPT !.present = uploadKey(res.date, "events") \in objects,
                                      !.head = head_object(objects,
                                                   checkKey(res.date, "events"), fault)]))
           /\ IF r.exc # None
              THEN workers' = [workers EXCEPT ![w].result = [res EXCEPT !.error = r.exc],
                                              ![w].pc = "done"]
              ELSE IF r.val
              THEN workers' = [workers EXCEPT
                                  ![w].result = [res EXCEPT !.skipped = TRUE,
                                                            !.success = TRUE],
                                  ![w].pc = "done"]
              ELSE workers' = [workers EXCEPT ![w].pc = "extract"]
    /\ UNCHANGED <<sinkVars, driverVars>>

\* run_daily lines 116-123 (and 133-135, 137) in process w
WorkerExtract(w, outcome) ==
    /\ workers[w].pc = "extract"
    /\ LET res == workers[w].result
           r == extract_events(res.date, outcome)
       IN  /\ trace' = Append(trace, Event(w,
                           [Call("extract_events", res.date, r.exc)
                               EXCEPT !.rows = IF r.exc = None THEN r.val ELSE 0]))
           /\ IF r.exc # None
              THEN workers' = [workers EXCEPT ![w].result = [res EXCEPT !.error = r.exc],
                                              ![w].pc = "done"]
              ELSE IF r.val = 0
              THEN workers' = [workers EXCEPT
                                  ![w].result = [res EXCEPT !.error = Some(NoDataFound)],
                                  ![w].pc = "done"]
              ELSE workers' = [workers EXCEPT
                                  ![w].result = [res EXCEPT !.records_extracted = r.val],
                                  ![w].df = r.val,
                                  ![w].pc = "upload"]
    /\ UNCHANGED <<sinkVars, driverVars>>

\* run_daily line 127 in process w: upload_events lines 81-98, up to the
\* answer of put_object for the data object (and 107-109, then run_daily
\* 133-135, 137 when it raises)
WorkerPutData(w, dataFault) ==
    /\ workers[w].pc = "upload"
    /\ LET res == workers[w].result
           put == put_object(objects, bucket_exists, uploadKey(res.date, "events"),
                             dataFault)
       IN  /\ trace' = Append(trace, Event(w, Call("put_object", res.date, put.exc)))
           /\ objects' = put.objects
           /\ IF put.exc # None
              THEN workers' = [workers EXCEPT ![w].result = [res EXCEPT !.error = put.exc],
                                              ![w].pc = "done"]
              ELSE workers' = [workers EXCEPT ![w].pc = "metadata"]
    /\ UNCHANGED <<bucket_exists, driverVars>>

\* upload_events lines 103-105 in process w: _upload_metadata, whose failure
\* is swallowed, and the return of the key; then run_daily lines 128-130, 137
WorkerPutMetadata(w, metaFault) ==
    /\ workers[w].pc = "metadata"
    /\ LET res == workers[w].result
           s3_key == uploadKey(res.date, "events")
       IN  /\ trace' = Append(trace, Event(w,
                           [Call("_upload_metadata", res.date, None)
                               EXCEPT !.meta = metadataWrite(objects, bucket_exists,
                                                             s3_key, metaFault)]))
           /\ objects' = upload_metadata(objects, bucket_exists, s3_key, metaFault)
           /\ workers' = [workers EXCEPT
                             ![w].result = [res EXCEPT !.s3_key = Some(s3_key),
                                                       !.success = TRUE],
                             ![w].pc = "done"]
    /\ UNCHANGED <<bucket_exists, driverVars>>

NextRace ==
    \/ \E w \in Workers, date \in RaceDates : WorkerCall(w, date)
    \/ \E w \in Workers, fault \in BOOLEAN : WorkerCheck(w, fault)
    \/ \E w \in Workers, outcome \in ExtractOutcomes : WorkerExtract(w, outcome)
    \/ \E w \in Workers, dataFault \in BOOLEAN : WorkerPutData(w, dataFault)
    \/ \E w \in Workers, metaFault \in BOOLEAN : WorkerPutMetadata(w, metaFault)

SpecRace == Init /\ [][NextRace]_vars


\* ------------------------------------------------------------------ claims
CallsOf(log, fn) == SelectSeq(log, LAMBDA c : c.fn = fn)
Called(log, fn) == CallsOf(log, fn) # <<>>
DatesOf(log) == [i \in 1..Len(log) |-> log[i].date]

Uploaded(r) == r.success /\ ~r.skipped /\ r.s3_key # None /\ r.error = None
Skipped(r) == r.success /\ r.skipped /\ r.s3_key = None /\ r.error = None
Failed(r) == ~r.success /\ ~r.skipped /\ r.s3_key = None /\ r.error # None

\* C1: every result run_daily returns (to the driver or to backfill) is
\* exactly one of: uploaded (success, not skipped, s3_key set, no error),
\* skipped (success, skipped, no s3_key, no error), failed (no success, not
\* skipped, no s3_key, error set).
C1_ResultVariants ==
    pc = "return" =>
        /\ Uploaded(result) \/ Skipped(result) \/ Failed(result)
        /\ ~(Uploaded(result) /\ Skipped(result))
        /\ ~(Uploaded(result) /\ Failed(result))
        /\ ~(Skipped(result) /\ Failed(result))

\* run_daily is about to return a failure although rows were extracted
C1_Witness ==
    /\ pc = "return"
    /\ Failed(result)
    /\ result.records_extracted > 0
    /\ result.error = Some(ErrPut)

\* the run_daily call that just returned followed a run_daily call for the
\* same date, both with skip_existing=True
SecondOfTwo ==
    /\ ret.kind = "run_daily"
    /\ ret.op.skip_existing
    /\ ret.prev.live
    /\ ret.prev.date = ret.op.date

\* C2 as stated: the second of two run_daily(d, skip_existing=True) calls in
\* sequence returns skipped=true and does not call extract_events, whatever
\* the first call returned.
C2_Original ==
    SecondOfTwo => ret.result.skipped /\ ~Called(ret.calls, "extract_events")

\* C2 amended: when the first call returned success=true, the second call
\* does not call extract_events, and it returns skipped=true unless its own
\* check_exists raised, in which case it returns the failure.
C2_SecondSkips ==
    (SecondOfTwo /\ ret.prev.success) =>
        /\ ~Called(ret.calls, "extract_events")
        /\ \/ Skipped(ret.result)
           \/ /\ Failed(ret.result)
              /\ ret.calls = <<[Call("check_exists", ret.op.date, ret.result.error)
                                    EXCEPT !.present = TRUE, !.head = "error"]>>

C2_Witness ==
    /\ SecondOfTwo
    /\ ret.prev.success
    /\ Skipped(ret.result)
    /\ uploadKey(ret.op.date, "events") \in objects

\* a backfill call has completed by returning its results
BackfillReturned == ret.kind = "backfill"

\* the days of a returned backfill, in order
DaysOfRange(start_date, end_date) ==
    [i \in 1..(strptime(end_date) - strptime(start_date) + 1) |->
        strftime(strptime(start_date) + i - 1)]

Count(seq, x) == Cardinality({i \in 1..Len(seq) : seq[i] = x})

FailedDates(res) == [i \in 1..Len(res.failed_days) |-> res.failed_days[i].date]

\* C3: in the results of a backfill that returns, the three lists together
\* have total_days entries and every day of [start, end] is in exactly one
\* list, exactly once.
C3_DaysPartition ==
    BackfillReturned =>
        LET res == ret.results
            all == res.successful_days \o res.skipped_days \o FailedDates(res)
            days == DaysOfRange(res.start_date, res.end_date)
        IN  /\ Len(res.successful_days) + Len(res.skipped_days) + Len(res.failed_days)
                   = res.total_days
            /\ \A i \in 1..Len(days) : Count(all, days[i]) = 1
            /\ Range(all) \subseteq Range(days)

C3_Witness ==
    /\ BackfillReturned
    /\ ret.results.total_days = 2
    /\ Len(ret.results.skipped_days) = 1
    /\ Len(ret.results.failed_days) = 1

\* the run_daily calls of the backfill in progress are the days from start up
\* to the current one, in order, and every collaborator call is for the day
\* of the latest run_daily call
LoopInOrder(log, start, n) ==
    /\ DatesOf(CallsOf(log, "run_daily")) = [i \in 1..n |-> strftime(start + i - 1)]
    /\ \A i \in 1..Len(log) :
           log[i].fn # "run_daily" =>
               /\ i > 1
               /\ log[i - 1].date = log[i].date

\* C4: backfill calls run_daily for every day of [start, end], in ascending
\* order, one day after the other, and no failed day stops the loop.
C4_EveryDayInOrder ==
    /\ (op.name = "backfill" /\ pc = "bf_loop") =>
           LoopInOrder(calls, op.start, current_date - op.start)
    /\ (op.name = "backfill" /\ pc \in {"check", "extract", "upload", "return"}) =>
           LoopInOrder(calls, op.start, current_date - op.start + 1)
    /\ (ret.kind \in {"backfill", "backfill_raise"} /\ ret.msg \notin {ErrFormat, ErrRange}) =>
           LoopInOrder(ret.calls, strptime(ret.start_date),
                       strptime(ret.end_date) - strptime(ret.start_date) + 1)

\* a two-day backfill whose first day failed and whose second day was loaded
C4_Witness ==
    /\ BackfillReturned
    /\ ret.results.total_days = 2
    /\ FailedDates(ret.results) = <<ret.start_date>>
    /\ ret.results.successful_days = <<ret.end_date>>

\* C5: a day of a backfill for which extract_events raised is in neither
\* successful_days nor skipped_days, and is in failed_days with the text of
\* the raised error.
C5_ExtractErrorIsFailedDay ==
    (ret.kind \in {"backfill", "backfill_raise"}) =>
        \A i \in 1..Len(ret.calls) :
            (ret.calls[i].fn = "extract_events" /\ ret.calls[i].exc # None) =>
                /\ ret.calls[i].date \notin Range(ret.results.successful_days)
                /\ ret.calls[i].date \notin Range(ret.results.skipped_days)
                /\ [date |-> ret.calls[i].date, error |-> ret.calls[i].exc]
                       \in Range(ret.results.failed_days)

C5_Witness ==
    /\ BackfillReturned
    /\ ret.results.total_days = 2
    /\ \E i \in 1..Len(ret.calls) :
           /\ ret.calls[i] = Call("extract_events", ret.start_date, Some(ErrQuery))
    /\ ret.results.successful_days = <<ret.end_date>>


\* a backfill call has completed, by returning or by raising
BackfillCompleted == ret.kind \in {"backfill", "backfill_raise"}

\* it was called with two valid dates, start <= end
ValidRange ==
    /\ ValidDate(ret.start_date)
    /\ ValidDate(ret.end_date)
    /\ strptime(ret.start_date) <= strptime(ret.end_date)

\* C6: a failure of check_exists, extract_events or upload_events is never
\* raised out of run_daily or out of backfill(start <= end): run_daily
\* returns it as success=false with the error, backfill returns its results
\* with the day in failed_days.
C6_FailuresContained ==
    /\ ret.kind = "run_daily" =>
           \A i \in 1..Len(ret.calls) :
               ret.calls[i].exc # None =>
                   Failed(ret.result) /\ ret.result.error = ret.calls[i].exc
    /\ (BackfillCompleted /\ ValidRange) =>
           \A i \in 1..Len(ret.calls) :
               ret.calls[i].exc # None =>
                   /\ ret.kind = "backfill"
                   /\ [date |-> ret.calls[i].date, error |-> ret.calls[i].exc]
                          \in Range(ret.results.failed_days)

\* C7: backfill(start, end, _) with valid dates start <= end reports
\* total_days = (end - start in days) + 1.
C7_TotalDays ==
    (BackfillCompleted /\ ValidRange) =>
        /\ ret.kind = "backfill"
        /\ ret.results.total_days
               = strptime(ret.end_date) - strptime(ret.start_date) + 1

\* C8: backfill with start > end raises ValueError("start_date must be before
\* end_date") at once: no call of run_daily, check_exists, extract_events or
\* upload_events, no results, the bucket as before.
C8_InvalidRangeRaises ==
    (/\ BackfillCompleted
     /\ ValidDate(ret.start_date)
     /\ ValidDate(ret.end_date)
     /\ strptime(ret.start_date) > strptime(ret.end_date)) =>
        /\ ret.kind = "backfill_raise"
        /\ ret.exc = "ValueError"
        /\ ret.msg = ErrRange
        /\ ret.calls = <<>>
        /\ ret.results = NoResults
        /\ objects = ret.objects_before

C8_Witness ==
    /\ ret.kind = "backfill_raise"
    /\ ret.msg = ErrRange
    /\ ret.start_date = <<MAXYEAR, 12, 31>>
    /\ ret.end_date = strftime(WindowFirst)
    /\ objects # {}

\* C9: once upload_events(df, d) has returned its key for a non-empty batch,
\* check_exists(d) finds the object: it returns True when head_object
\* answers, and it never returns False.
C9_ExistsAfterUpload ==
    (pc = "return" /\ result.success /\ ~result.skipped) =>
        /\ result.s3_key = Some(uploadKey(result.date, "events"))
        /\ uploadKey(result.date, "events") \in objects
        /\ check_exists(objects, result.date, FALSE) = Returned(TRUE, objects)
        /\ check_exists(objects, result.date, TRUE).exc # None

\* the data object was written, the metadata object was not
C9_Witness ==
    /\ pc = "return"
    /\ result.success
    /\ ~result.skipped
    /\ df = MaxRecords
    /\ metadataKey(uploadKey(result.date, "events")) \notin objects

\* C10: in every status report, missing_dates as a set is the reported
\* BigQuery dates minus the reported S3 dates.
C10_MissingIsDifference ==
    ret.kind = "status" =>
        Range(ret.status.missing_dates)
            = Range(ret.status.bigquery_available_dates)
                  \ Range(ret.status.s3_available_dates)

\* two dates are reported missing while the bucket holds data objects
C10_Witness ==
    /\ ret.kind = "status"
    /\ Len(ret.status.missing_dates) = 2
    /\ ret.status.missing_dates[1] # ret.status.missing_dates[2]
    /\ \E d \in Dates : uploadKey(d, "events") \in objects

\* C11: get_pipeline_status asks both listings whatever the other one does:
\* when the source listing raised, the report's S3 dates are what the sink
\* listing returned; when the sink listing failed, the report's S3 dates are
\* empty and its BigQuery dates are what the source listing returned.
C11_IndependentListings ==
    ret.kind = "status" =>
        /\ Len(ret.calls) = 2
        /\ ret.calls[1].fn = "get_available_dates"
        /\ ret.calls[2].fn = "list_available_dates"
        /\ ret.calls[1].exc # None =>
               /\ ret.status.bigquery_available_dates = <<>>
               /\ ret.status.s3_available_dates = ret.calls[2].val
        /\ (ret.calls[1].exc = None /\ ret.calls[2].failed) =>
               /\ ret.status.s3_available_dates = <<>>
               /\ ret.status.bigquery_available_dates = ret.calls[1].val

\* the half of C11 about a failed sink listing
C11_SinkFailureKeepsSource ==
    (ret.kind = "status" /\ Len(ret.calls) = 2 /\ ret.calls[2].failed) =>
        /\ ret.status.s3_available_dates = <<>>
        /\ ret.status.bigquery_available_dates = ret.calls[1].val

IsReport(c) == c \in [bigquery : BOOLEAN, s3 : BOOLEAN]

\* C12: test_connections and get_pipeline_status never raise: whatever the
\* probes and the listings do, test_connections ends with a report of two
\* booleans and get_pipeline_status with a status dict holding such a report
\* and its three date lists.
C12_NeverRaise ==
    /\ ret.kind # "status_raise"
    /\ ret.kind = "connections" => IsReport(ret.connections)
    /\ pc = "status_dates" => IsReport(status.connections)
    /\ ret.kind = "status" =>
           /\ IsReport(ret.status.connections)
           /\ DOMAIN ret.status = {"connections", "bigquery_available_dates",
                                    "s3_available_dates", "missing_dates"}
           /\ Range(ret.status.bigquery_available_dates) \subseteq Dates
           /\ Range(ret.status.missing_dates) \subseteq Dates

\* a status report after both probes failed and the table listing raised
C12_Witness ==
    /\ ret.kind = "status"
    /\ ret.calls[1].exc = Some(ErrList)
    /\ ret.status.connections = [bigquery |-> FALSE, s3 |-> FALSE]

\* C13: each entry of the report of test_connections is the result of its own
\* probe (false when the probe failed), whatever the other probe did, and
\* the sink is probed (an absent LocalStack bucket is created) also when the
\* source probe failed.
C13_ProbesIndependent ==
    ret.kind = "connections" =>
        LET a == ret.args
            s3 == loader_test_connection(a.bucket_before, a.use_localstack,
                                         a.headFault, a.createFault)
        IN  /\ ret.connections.bigquery = extractor_test_connection(a.bqOk)
            /\ ret.connections.s3 = s3.val
            /\ bucket_exists = s3.bucket

\* source unreachable, sink reachable: bigquery false, s3 true, and the probe
\* of the sink created the bucket
C13_Witness ==
    /\ ret.kind = "connections"
    /\ ~ret.args.bqOk
    /\ ~ret.args.bucket_before
    /\ ret.connections = [bigquery |-> FALSE, s3 |-> TRUE]
    /\ bucket_exists

\* the upload_events call run_daily has just made
LastUpload == calls[Len(calls)]
UploadJustDone == pc = "return" /\ calls # <<>> /\ LastUpload.fn = "upload_events"

\* C14: when the data object was written and the metadata write raised,
\* upload_events returns the partition key and run_daily's result has
\* success=true with that key as s3_key; when the data write raised,
\* upload_events raises and run_daily's result has success=false.
C14_MetadataFailureNotFatal ==
    UploadJustDone =>
        /\ LastUpload.meta = "raised" =>
               /\ LastUpload.exc = None
               /\ Uploaded(result)
               /\ result.s3_key = Some(uploadKey(result.date, "events"))
               /\ uploadKey(result.date, "events") \in objects
        /\ LastUpload.exc = Some(ErrPut) =>
               /\ LastUpload.meta = "none"
               /\ Failed(result)
               /\ result.error = Some(ErrPut)

\* the data object is stored, the metadata write raised and left no object
C14_Witness ==
    /\ UploadJustDone
    /\ LastUpload.meta = "raised"
    /\ result.success
    /\ uploadKey(result.date, "events") \in objects
    /\ metadataKey(uploadKey(result.date, "events")) \notin objects

\* every failed day of the report is a day without data
OnlyNoData(failed_days) ==
    \A i \in 1..Len(failed_days) : failed_days[i].error = Some(NoDataFound)

\* C15: the driver exits 0 after a single-day run that was skipped or found
\* no data, and after a backfill none of whose days failed otherwise than by
\* finding no data.
C15_ExitCodeOnlyOnFailure ==
    [][(pc = "done" /\ pc' = "idle") =>
           /\ (/\ ret.kind = "run_daily"
               /\ \/ Skipped(ret.result)
                  \/ ret.result.error = Some(NoDataFound)) => exit_code' = 0
           /\ (ret.kind = "backfill" /\ OnlyNoData(ret.results.failed_days)) =>
                  exit_code' = 0]_vars

\* the part of C15 the driver satisfies: skipped and loaded days exit 0
C15_SuccessExitsZero ==
    [][(pc = "done" /\ pc' = "idle") =>
           /\ (ret.kind = "run_daily" /\ ret.result.success) => exit_code' = 0
           /\ (ret.kind = "backfill" /\ ret.results.failed_days = <<>>) =>
                  exit_code' = 0]_vars

\* the rows extract_events returned for the days in the list, summed
RECURSIVE RowsOf(_, _)
RowsOf(log, days) ==
    IF log = <<>> THEN 0
    ELSE (IF Head(log).fn = "extract_events" /\ Head(log).date \in Range(days)
          THEN Head(log).rows ELSE 0) + RowsOf(Tail(log), days)

\* C16: in every backfill report total_records is the sum, over the days of
\* successful_days, of the rows extracted for the day; no other day counts.
C16_TotalRecords ==
    BackfillReturned =>
        ret.results.total_records = RowsOf(ret.calls, ret.results.successful_days)

\* two days with rows extracted: the first failed in upload_events, the
\* second was loaded and is the only one counted
C16_Witness ==
    /\ BackfillReturned
    /\ ret.results.total_days = 2
    /\ ret.results.failed_days = <<[date |-> ret.start_date, error |-> Some(ErrPut)]>>
    /\ ret.results.successful_days = <<ret.end_date>>
    /\ ret.results.total_records = 1
    /\ RowsOf(ret.calls, <<ret.start_date>>) = MaxRecords

\* the collaborator calls a returned backfill made for day d, in order
DayCalls(d) == SelectSeq(ret.calls, LAMBDA c : c.date = d /\ c.fn # "run_daily")

\* C17: in the report of backfill(skip_existing=true), a day whose data
\* object was in the bucket when check_exists answered is in skipped_days
\* only; a day absent then, for which extract_events returned rows and
\* upload_events returned, is in successful_days only; a day absent then,
\* for which extract_events returned nothing, is in failed_days only, with
\* the error "No data found".
C17_ClassifiedWhenVisited ==
    (BackfillReturned /\ ret.skip_existing) =>
        LET res == ret.results
            days == DaysOfRange(res.start_date, res.end_date)
        IN  \A i \in 1..Len(days) :
                LET d == days[i]
                    cs == DayCalls(d)
                    absent == cs[1].exc = None /\ ~cs[1].present
                IN  /\ cs # <<>>
                    /\ cs[1].fn = "check_exists"
                    /\ (cs[1].exc = None /\ cs[1].present) =>
                           /\ Len(cs) = 1
                           /\ d \in Range(res.skipped_days)
                           /\ d \notin Range(res.successful_days)
                           /\ d \notin Range(FailedDates(res))
                    /\ absent => (Len(cs) >= 2 /\ cs[2].fn = "extract_events")
                    /\ (absent /\ cs[2].exc = None /\ cs[2].rows > 0
                           /\ cs[Len(cs)].fn = "upload_events" /\ cs[Len(cs)].exc = None) =>
                           /\ d \in Range(res.successful_days)
                           /\ d \notin Range(res.skipped_days)
                           /\ d \notin Range(FailedDates(res))
                    /\ (absent /\ cs[2].exc = None /\ cs[2].rows = 0) =>
                           /\ Len(cs) = 2
                           /\ [date |-> d, error |-> Some(NoDataFound)]
                                  \in Range(res.failed_days)
                           /\ d \notin Range(res.skipped_days)
                           /\ d \notin Range(res.successful_days)

\* the bucket held the first day and not the second: the first is skipped,
\* the second is loaded
C17_Witness ==
    /\ BackfillReturned
    /\ ret.skip_existing
    /\ ret.results.total_days = 2
    /\ ret.results.skipped_days = <<ret.start_date>>
    /\ ret.results.successful_days = <<ret.end_date>>
    /\ ret.results.failed_days = <<>>
    /\ DayCalls(ret.start_date)[1].present
    /\ ~DayCalls(ret.end_date)[1].present

\* the bucket held the first day, the source had nothing for the second
C17_WitnessNoData ==
    /\ BackfillReturned
    /\ ret.skip_existing
    /\ ret.results.skipped_days = <<ret.start_date>>
    /\ ret.results.failed_days = <<[date |-> ret.end_date, error |-> Some(NoDataFound)]>>

\* the dates whose data object is in the bucket
DatesPresent == {d \in Dates : uploadKey(d, "events") \in objects}

\* C18: when list_objects_v2 answers, list_available_dates(limit) returns
\* the dates of the day partitions in the bucket, most recent first, cut to
\* limit; at most Limit dates are ever present here, so every date whose
\* data object was uploaded is in the list.
C18_ListsDayPartitions ==
    bucket_exists =>
        LET listed == list_available_dates(objects, bucket_exists, "events", Limit, FALSE)
        IN  /\ Range(listed) = DatesPresent
            /\ Len(listed) = Cardinality(DatesPresent)
            /\ \A i \in 1..(Len(listed) - 1) : DateLess(listed[i + 1], listed[i])

\* whatever the bucket holds, list_available_dates returns the empty list
C18_AlwaysEmpty ==
    \A fault \in BOOLEAN :
        list_available_dates(objects, bucket_exists, "events", Limit, fault) = <<>>

\* the check_exists entry of a day whose data object was found
FoundEntry(date) ==
    [Call("check_exists", date, None) EXCEPT !.present = TRUE, !.head = "200"]

\* C19: when run_daily(d, skip_existing=True) finds the data object of d,
\* its result is success=true, skipped=true, records_extracted=0, it calls
\* neither extract_events nor upload_events, the bucket is left as it was,
\* and that result is what it returns.
C19_SkipLeavesSinkAlone ==
    [][/\ (/\ pc = "check"
            /\ SplitOk(result.date)
            /\ uploadKey(result.date, "events") \in objects
            /\ calls'[Len(calls')].exc = None) =>
               /\ pc' = "return"
               /\ result' = [newResult(result.date) EXCEPT !.success = TRUE,
                                                           !.skipped = TRUE]
               /\ result'.records_extracted = 0
               /\ calls' = Append(calls, FoundEntry(result.date))
               /\ objects' = objects
               /\ bucket_exists' = bucket_exists
       /\ (pc = "return" /\ result.skipped) =>
               /\ calls[Len(calls)] = FoundEntry(result.date)
               /\ objects' = objects
               /\ bucket_exists' = bucket_exists
               /\ op.name = "run_daily" =>
                      /\ ret'.kind = "run_daily"
                      /\ ret'.result = result
                      /\ ret'.calls = <<FoundEntry(result.date)>>]_vars

\* run_daily has returned a skipped day to the driver after check_exists
\* alone, with the data object in the bucket
C19_Witness ==
    /\ ret.kind = "run_daily"
    /\ ret.op.skip_existing
    /\ Skipped(ret.result)
    /\ ret.result.records_extracted = 0
    /\ ret.calls = <<FoundEntry(ret.op.date)>>
    /\ uploadKey(ret.op.date, "events") \in objects

\* the collaborator calls of the run_daily call that is about to return
DayLog == SelectSeq(calls, LAMBDA c : c.date = result.date /\ c.fn # "run_daily")

\* C20: when extract_events returned an empty result, run_daily's result is
\* success=false, skipped=false, error "No data found", records_extracted=0
\* and upload_events was not called; when extract_events raised, the result
\* is success=false with the raised message as error, which is not "No data
\* found".
C20_NoDataIsNotAnError ==
    pc = "return" =>
        \A i \in 1..Len(DayLog) :
            DayLog[i].fn = "extract_events" =>
                /\ (DayLog[i].exc = None /\ DayLog[i].rows = 0) =>
                       /\ Failed(result)
                       /\ result.error = Some(NoDataFound)
                       /\ result.records_extracted = 0
                       /\ i = Len(DayLog)
                /\ DayLog[i].exc # None =>
                       /\ Failed(result)
                       /\ result.error = DayLog[i].exc
                       /\ result.error # Some(NoDataFound)
                       /\ result.records_extracted = 0
                       /\ i = Len(DayLog)

\* run_daily called by the driver without the existence check is about to
\* return the no-data result after extract_events alone
C20_Witness ==
    /\ pc = "return"
    /\ op.name = "run_daily"
    /\ ~op.skip_existing
    /\ calls = <<Call("extract_events", result.date, None)>>
    /\ result.error = Some(NoDataFound)
    /\ ~result.success

\* C21: check_exists returns False only when head_object answered 404 and
\* raises when head_object failed otherwise; a run_daily(d, True) whose
\* check_exists raised has the result success=false, skipped=false with
\* that error, and has called neither extract_events nor upload_events.
C21_SinkErrorIsNotAbsence ==
    (pc \in {"extract", "upload", "return"} /\ DayLog # <<>>
         /\ DayLog[1].fn = "check_exists") =>
        LET c == DayLog[1]
        IN  /\ c.head = "error" => c.exc # None
            /\ c.exc # None =>
                   /\ pc = "return"
                   /\ DayLog = <<c>>
                   /\ Failed(result)
                   /\ result.error = c.exc
            /\ (c.exc = None /\ ~result.skipped) => c.head = "404"
            /\ (c.exc = None /\ result.skipped) => c.head = "200"

\* head_object failed for a day whose data object is in the bucket: the day
\* is neither skipped nor extracted
C21_Witness ==
    /\ pc = "return"
    /\ DayLog = <<[Call("check_exists", result.date, Some(ErrHead))
                      EXCEPT !.present = TRUE, !.head = "error"]>>
    /\ Failed(result)
    /\ result.error = Some(ErrHead)

\* the functions of the collaborator calls of the current run_daily call
DayFns == [i \in 1..Len(DayLog) |-> DayLog[i].fn]

\* C22: within one run_daily call check_exists is called first and only
\* when skip_existing is true, then extract_events, then upload_events,
\* each at most once; upload_events only after extract_events returned rows;
\* the call returns after check_exists (skipped or failed), after
\* extract_events (no data or failed) or after upload_events.
C22_CallOrder ==
    pc \in {"check", "extract", "upload", "return"} =>
        /\ IF op.skip_existing
           THEN \/ DayFns = <<>>
                \/ DayFns = <<"check_exists">>
                \/ DayFns = <<"check_exists", "extract_events">>
                \/ DayFns = <<"check_exists", "extract_events", "upload_events">>
           ELSE \/ DayFns = <<>>
                \/ DayFns = <<"extract_events">>
                \/ DayFns = <<"extract_events", "upload_events">>
        /\ \A i \in 1..Len(DayLog) :
               DayLog[i].fn = "upload_events" =>
                   /\ DayLog[i - 1].fn = "extract_events"
                   /\ DayLog[i - 1].exc = None
                   /\ DayLog[i - 1].rows > 0
        /\ \A i \in 1..(Len(DayLog) - 1) : DayLog[i].exc = None
        /\ pc = "check" => DayFns = <<>>
        /\ pc = "extract" => ~Called(DayLog, "extract_events")
        /\ pc = "upload" => DayFns[Len(DayFns)] = "extract_events"
        /\ pc = "return" =>
               /\ DayFns # <<>>
               /\ Skipped(result) => DayFns = <<"check_exists">>
               /\ Uploaded(result) => DayFns[Len(DayFns)] = "upload_events"

\* all three collaborators were called, and the load failed
C22_Witness ==
    /\ pc = "return"
    /\ DayFns = <<"check_exists", "extract_events", "upload_events">>
    /\ Failed(result)
    /\ DayLog[3].exc = Some(ErrPut)

\* C23: when extract_events returned rows and upload_events returned,
\* run_daily's result is success=true, skipped=false, without error,
\* records_extracted is the number of rows extract_events returned and
\* s3_key is the key upload_events returns for that batch and date.
C23_SuccessResult ==
    (pc = "return" /\ DayLog # <<>> /\ DayLog[Len(DayLog)].fn = "upload_events"
         /\ DayLog[Len(DayLog)].exc = None) =>
        LET rows == DayLog[Len(DayLog) - 1].rows
        IN  /\ rows > 0
            /\ Uploaded(result)
            /\ result.records_extracted = rows
            /\ result.s3_key
                   = upload_events(objects, bucket_exists, rows, result.date,
                                   FALSE, FALSE).val
            /\ result.s3_key = Some(uploadKey(result.date, "events"))

\* a day run by backfill without the existence check was loaded with the
\* largest batch
C23_Witness ==
    /\ pc = "return"
    /\ op.name = "backfill"
    /\ ~op.skip_existing
    /\ DayFns = <<"extract_events", "upload_events">>
    /\ DayLog[1].rows = MaxRecords
    /\ result.records_extracted = MaxRecords
    /\ result.success

\* the answer of head_bucket in the test_connections call that returned
HeadAnswer == head_bucket(ret.args.bucket_before, ret.args.headFault)

\* C24: S3Loader.test_connection returns a boolean in every case; the bucket
\* comes into existence only in LocalStack mode after head_bucket answered
\* 404, and then the result is true; without LocalStack the bucket is left
\* as it was and the result is false unless head_bucket answered 200.
C24_BucketCreatedOnlyInSandbox ==
    ret.kind = "connections" =>
        /\ ret.connections.s3 \in BOOLEAN
        /\ (bucket_exists /\ ~ret.args.bucket_before) =>
               /\ ret.args.use_localstack
               /\ HeadAnswer = "404"
               /\ ret.connections.s3
        /\ ~ret.args.use_localstack =>
               /\ bucket_exists = ret.args.bucket_before
               /\ ret.connections.s3 = (HeadAnswer = "200")
        /\ (ret.args.use_localstack /\ HeadAnswer = "404" /\ ~ret.args.createFault) =>
               bucket_exists /\ ret.connections.s3
        /\ HeadAnswer \in {"403", "exception"} =>
               /\ ~ret.connections.s3
               /\ bucket_exists = ret.args.bucket_before

\* without LocalStack a missing bucket is reported and not created
C24_Witness ==
    /\ ret.kind = "connections"
    /\ ~ret.args.use_localstack
    /\ ~ret.args.bucket_before
    /\ ret.args.headFault = "none"
    /\ ~ret.connections.s3
    /\ ~bucket_exists

\* in LocalStack mode the missing bucket was created
C24_WitnessSandbox ==
    /\ ret.kind = "connections"
    /\ ret.args.use_localstack
    /\ ~ret.args.bucket_before
    /\ bucket_exists
    /\ ret.connections.s3

\* the positions in the global call order of the calls of fn by process w
EventsOf(w, fn) == {i \in DOMAIN trace : trace[i].w = w /\ trace[i].call.fn = fn}

\* the positions at which process w stored the data object of its date
UploadsOf(w) == {i \in EventsOf(w, "put_object") : trace[i].call.exc = None}

\* C25: run_daily(d, skip_existing=True) takes no lock and makes no claim in
\* the sink. A process whose check found the object absent goes on to
\* extract_events, whatever the other process does meanwhile; and two
\* processes both store the data object of one date only when each one's
\* check_exists was called before the other one's put_object of the data.
C25_CheckThenUploadRace ==
    /\ \A w \in Workers :
           \A i \in EventsOf(w, "check_exists") :
               (trace[i].call.exc = None /\ trace[i].call.head = "404")
                   => /\ ~workers[w].result.skipped
                      /\ \/ workers[w].pc = "extract"
                         \/ EventsOf(w, "extract_events") # {}
    /\ \A w \in Workers, v \in Workers :
           \A i \in UploadsOf(w), j \in UploadsOf(v) :
               (w # v /\ trace[i].call.date = trace[j].call.date)
                   => \A k \in EventsOf(v, "check_exists") : k < i /\ k < j

\* both processes ran run_daily(d, True) for one d, both checks came before
\* both uploads, and both stored the day's data object
C25_Witness ==
    /\ \A w \in Workers : /\ workers[w].pc = "done"
                          /\ workers[w].result.success
                          /\ ~workers[w].result.skipped
                          /\ workers[w].result.s3_key # None
                          /\ UploadsOf(w) # {}
                          /\ EventsOf(w, "extract_events") # {}
    /\ workers[1].result.date = workers[2].result.date
    /\ \A w \in Workers, v \in Workers :
           \A k \in EventsOf(w, "check_exists"), i \in UploadsOf(v) : k < i

\* one process stands between its two writes, the data object stored and no
\* metadata yet, and the other one has found the object and skipped the day
C25_WitnessBetweenWrites ==
    \E w \in Workers, v \in Workers :
        /\ workers[w].pc = "metadata"
        /\ ~workers[w].result.success
        /\ workers[v].pc = "done"
        /\ workers[v].result.skipped
        /\ workers[v].result.date = workers[w].result.date
        /\ objects = {uploadKey(workers[w].result.date, "events")}

\* C26: no object of a day is ever deleted from the bucket (the only delete
\* is that of the setup script's own test object), and an operation called
\* with skip_existing=true calls extract_events and upload_events for a date
\* only while the data object of that date is absent: a date already stored,
\* at the start or by an earlier call, is neither extracted nor written again.
C26_WrittenAtMostOnce ==
    [][/\ (objects \ {testKey}) \subseteq objects'
       /\ (pc \in {"extract", "upload"} /\ pc' # pc /\ op.skip_existing) =>
              /\ SplitOk(result.date)
              /\ uploadKey(result.date, "events") \notin objects
              /\ calls'[Len(calls')].fn = IF pc = "extract" THEN "extract_events"
                                          ELSE "upload_events"
       /\ (/\ pc = "check"
           /\ SplitOk(result.date)
           /\ uploadKey(result.date, "events") \in objects) =>
              /\ pc' = "return"
              /\ objects' = objects]_vars

\* under skip_existing=true a day was stored for the first time while the
\* bucket already held other days stored before it
C26_Witness ==
    /\ pc = "return"
    /\ op # NoOp
    /\ op.skip_existing
    /\ result.success
    /\ ~result.skipped
    /\ DayFns = <<"check_exists", "extract_events", "upload_events">>
    /\ ~DayLog[1].present
    /\ uploadKey(result.date, "events") \in objects
    /\ Cardinality(DatesPresent) >= 2

\* C27: the dates present in the bucket change only in the upload step of a
\* run_daily whose result becomes success=true, skipped=false, and then they
\* grow by that run's date at most; every other step of run_daily (the
\* check, the extraction, a data write that raises) leaves the bucket as it
\* was, and the result of the run is returned as it stood.
C27_FailedRunLeavesSink ==
    [][/\ (DatesPresent' # DatesPresent
           \/ (pc \in {"check", "extract", "upload", "return"} /\ objects' # objects)) =>
              /\ pc = "upload"
              /\ pc' = "return"
              /\ result'.success
              /\ ~result'.skipped
              /\ result'.date = result.date
              /\ DatesPresent \subseteq DatesPresent'
              /\ DatesPresent' \subseteq DatesPresent \cup {result.date}
       /\ (pc \in {"check", "extract", "upload"} /\ pc' = "return"
               /\ ~result'.success) =>
              /\ objects' = objects
              /\ result'.error # None
       /\ (pc = "return" /\ op.name = "run_daily") => ret'.result = result]_vars

\* the data write of a run raised with the bucket there: the run is about to
\* return success=false and its date is not in the bucket
C27_Witness ==
    /\ pc = "return"
    /\ bucket_exists
    /\ ~result.success
    /\ DayLog # <<>>
    /\ DayLog[Len(DayLog)].fn = "upload_events"
    /\ DayLog[Len(DayLog)].exc # None
    /\ uploadKey(result.date, "events") \notin objects

\* a run is about to return success=true, skipped=false with its date stored
C27_WitnessStored ==
    /\ pc = "return"
    /\ result.success
    /\ ~result.skipped
    /\ DatesPresent = {result.date}

\* get_pipeline_status has returned a report for which both listings answered
BothListed ==
    /\ ret.kind = "status"
    /\ Len(ret.calls) = 2
    /\ ret.calls[1].exc = None
    /\ ~ret.calls[2].failed

\* C28: a date stored by a successful run_daily and listed by the source is
\* reported by a following get_pipeline_status, when both listings answer
\* and the bucket holds at most Limit dates, among the S3 dates and not among
\* the missing dates.
C28_StoredDateReported ==
    (BothListed /\ Cardinality(DatesPresent) <= Limit) =>
        \A d \in DatesPresent \cap Range(ret.status.bigquery_available_dates) :
            /\ d \in Range(ret.status.s3_available_dates)
            /\ d \notin Range(ret.status.missing_dates)

\* what the report says instead: no S3 date at all, and every date of the
\* source missing, stored or not
C28_StoredDateReportedMissing ==
    BothListed =>
        /\ ret.status.s3_available_dates = <<>>
        /\ ret.status.missing_dates = ret.status.bigquery_available_dates

\* a report for which both listings answered, with a date of the source
\* stored in the bucket
C28_Case ==
    /\ BothListed
    /\ DatesPresent \cap Range(ret.status.bigquery_available_dates) # {}

====
